---- MODULE Spec2Model ----
(***************************************************************************)
(* Model of the patient-name detection engine (name_extractor.py, utils.py)*)
(*                                                                         *)
(* A text is a sequence of characters; a character is an atom written as a *)
(* one-letter string ("e_acute", "E_acute" and "aleph" stand for the       *)
(* letters e-acute, E-acute and the caseless letter aleph).  Indices kept  *)
(* in the state are the program's 0-based indices.                         *)
(***************************************************************************)
EXTENDS Integers, Sequences, FiniteSets

VARIABLES
    config,             \* NameExtractor.config (shared by every scan)
    document,           \* the dict handed to extract_patient_name_from_document
    pc,                 \* per scan: position of the coroutine
    page_idx,           \* per frame: loop variable of the page loop
    processed,          \* per scan: the page indices handed to the page scan, in order
    sorted_words_by_y,  \* per frame: local of detect_patient_name_from_page
    sorted_words,       \* per frame: local of detect_patient_name_from_page
    words_text,         \* per frame: local of _detect_patient_name_using_keywords
    page_results,       \* per scan: what the page scan of each processed page returned
    outcome,            \* per scan: how the call ended
    args,               \* arguments of a direct PatientName(...) construction
    built               \* what that construction produced

vars == <<config, document, pc, page_idx, processed, sorted_words_by_y,
          sorted_words, words_text, page_results, outcome, args, built>>

scanVars == <<pc, page_idx, processed, sorted_words_by_y, sorted_words,
              words_text, page_results, outcome>>

(***************************************************************************)
(* Characters and the str methods the program calls.                       *)
(***************************************************************************)
UpperSeq == <<"A","B","C","D","E","F","G","H","I","J","K","L","M","N","O",
              "P","Q","R","S","T","U","V","W","X","Y","Z","E_acute">>
LowerSeq == <<"a","b","c","d","e","f","g","h","i","j","k","l","m","n","o",
              "p","q","r","s","t","u","v","w","x","y","z","e_acute">>

UpperChars == {UpperSeq[k] : k \in 1..Len(UpperSeq)}
LowerChars == {LowerSeq[k] : k \in 1..Len(LowerSeq)}
\* alphabetic characters: cased letters and letters without case
AlphaChars == UpperChars \cup LowerChars \cup {"aleph"}
\* what str.strip() without argument removes
Whitespace == {" "}

\* str.lower() on one character
LowerChar(c) ==
    IF c \in UpperChars
    THEN LowerSeq[CHOOSE k \in 1..Len(UpperSeq) : UpperSeq[k] = c]
    ELSE c

\* str.lower()
lower(s) == [k \in 1..Len(s) |-> LowerChar(s[k])]

\* str.isalpha(): non-empty and every character alphabetic
isalpha(s) == Len(s) >= 1 /\ \A k \in 1..Len(s) : s[k] \in AlphaChars

\* str.isupper(): at least one cased character and no lowercase one
isupper(s) ==
    /\ \E k \in 1..Len(s) : s[k] \in UpperChars
    /\ \A k \in 1..Len(s) : s[k] \notin LowerChars

\* str.islower(): at least one cased character and no uppercase one
islower(s) ==
    /\ \E k \in 1..Len(s) : s[k] \in LowerChars
    /\ \A k \in 1..Len(s) : s[k] \notin UpperChars

RECURSIVE lstrip(_, _)
\* str.lstrip(chars)
lstrip(s, chars) ==
    IF s # <<>> /\ Head(s) \in chars THEN lstrip(Tail(s), chars) ELSE s

RECURSIVE rstrip(_, _)
\* str.rstrip(chars)
rstrip(s, chars) ==
    IF s # <<>> /\ s[Len(s)] \in chars
    THEN rstrip(SubSeq(s, 1, Len(s) - 1), chars)
    ELSE s

\* str.strip(chars)
strip(s, chars) == rstrip(lstrip(s, chars), chars)

(***************************************************************************)
(* utils.py: the two validators.                                           *)
(***************************************************************************)
is_valid_french_first_name(name) ==
    /\ name # <<>>
    /\ Len(name) >= 2
    /\ isupper(<<name[1]>>)
    /\ islower(Tail(name))
    /\ isalpha(name)

is_valid_french_family_name(name) ==
    /\ name # <<>>
    /\ Len(name) >= 2
    /\ isupper(name)
    /\ isalpha(name)

(***************************************************************************)
(* name_extractor.py: values.                                              *)
(***************************************************************************)
\* Python's None
None == [kind |-> "None"]

\* an int held in a variable that may also hold None
IntValue(n) == [kind |-> "int", value |-> n]

\* the exceptions a scan can end with
InvalidDocumentFormat == [kind |-> "InvalidDocumentFormat"]
ValueError == [kind |-> "ValueError"]

\* 0-based subscript seq[i]
At(seq, i) == seq[i + 1]

\* NameExtractorConfig(): the default configuration
NameExtractorConfig ==
    [offset_next_line |-> 5,
     sort_document |-> TRUE,
     name_prefixes |-> {<<"m","o","n","s","i","e","u","r">>,
                       <<"m","a","d","a","m","e">>,
                       <<"m","m","e">>,
                       <<"m","l","l","e">>,
                       <<"m","r">>,
                       <<"m","r","s">>,
                       <<"M","r","s">>,
                       <<"M","m","e">>,
                       <<"M","l","l","e">>},
     doctor_prefixes |-> {<<"d","r">>,
                         <<"d","o","c","t","e","u","r">>},
     nom_keywords |-> {<<"n","o","m",":">>,
                      <<"n","o","m">>,
                      <<"n","o","m"," ","d","e"," ","f","a","m","i","l","l","e">>,
                      <<"f","a","m","i","l","l","e">>},
     prenom_keywords |-> {<<"p","r","e_acute","n","o","m">>,
                         <<"p","r","e","n","o","m">>},
     patient_keywords |-> {<<"p","a","t","i","e","n","t",":">>,
                          <<"p","a","t","i","e","n","t">>}]

\* PatientName._validate, raising on the first failing name only
ValidateFirstOnly(first_name_index, family_name_index, first_name, family_name) ==
    IF ~is_valid_french_first_name(first_name)
    THEN ValueError
    ELSE [kind |-> "PatientName",
          first_name_index |-> first_name_index,
          family_name_index |-> family_name_index,
          first_name |-> first_name,
          family_name |-> family_name]

\* PatientName(...): the object, or the ValueError _validate raises
PatientName(first_name_index, family_name_index, first_name, family_name) ==
    IF ~is_valid_french_first_name(first_name)
    THEN ValueError
    ELSE IF ~is_valid_french_family_name(family_name)
    THEN ValueError
    ELSE [kind |-> "PatientName",
          first_name_index |-> first_name_index,
          family_name_index |-> family_name_index,
          first_name |-> first_name,
          family_name |-> family_name]

(***************************************************************************)
(* sorted(iterable, key=...): a stable sort, by insertion.                 *)
(***************************************************************************)
\* insertion before the elements of equal key: an unstable sort
InsertBeforeEqual(s, w, k) ==
    LET n == Cardinality({i \in 1..Len(s) : s[i].bbox[k] < w.bbox[k]})
    IN  SubSeq(s, 1, n) \o <<w>> \o SubSeq(s, n + 1, Len(s))

\* w placed after every element of s whose key is not greater (s is sorted by k)
Insert(s, w, k) ==
    LET n == Cardinality({i \in 1..Len(s) : s[i].bbox[k] <= w.bbox[k]})
    IN  SubSeq(s, 1, n) \o <<w>> \o SubSeq(s, n + 1, Len(s))

RECURSIVE sorted(_, _)
\* sorted(words, key=lambda x: x["bbox"][k])
sorted(words, k) ==
    IF words = <<>>
    THEN <<>>
    ELSE Insert(sorted(SubSeq(words, 1, Len(words) - 1), k), words[Len(words)], k)

(***************************************************************************)
(* _detect_patient_name_using_prefix                                       *)
(***************************************************************************)
\* a prefix site that builds assignment B from the names in the order of A
PrefixSiteUnswapped(swords, i) ==
    LET name_parts == <<At(swords, i + 1).text, At(swords, i + 2).text>>
    IN  IF /\ is_valid_french_first_name(At(name_parts, 0))
           /\ is_valid_french_family_name(At(name_parts, 1))
        THEN PatientName(i + 1, i + 2, At(name_parts, 0), At(name_parts, 1))
        ELSE IF /\ is_valid_french_first_name(At(name_parts, 1))
                /\ is_valid_french_family_name(At(name_parts, 0))
        THEN PatientName(i + 2, i + 1, At(name_parts, 0), At(name_parts, 1))
        ELSE None

\* lines 159-169: the two assignments tried at the prefix site i
PrefixSite(swords, i) ==
    LET name_parts == <<At(swords, i + 1).text, At(swords, i + 2).text>>
    IN  IF /\ is_valid_french_first_name(At(name_parts, 0))
           /\ is_valid_french_family_name(At(name_parts, 1))
        THEN PatientName(i + 1, i + 2, At(name_parts, 0), At(name_parts, 1))
        ELSE IF /\ is_valid_french_first_name(At(name_parts, 1))
                /\ is_valid_french_family_name(At(name_parts, 0))
        THEN PatientName(i + 2, i + 1, At(name_parts, 1), At(name_parts, 0))
        ELSE None

RECURSIVE PrefixStopAtFirstSite(_, _)
\* the loop giving up at the first prefix site, valid or not
PrefixStopAtFirstSite(swords, i) ==
    IF i >= Len(swords)
    THEN None
    ELSE IF i + 2 >= Len(swords)
    THEN PrefixStopAtFirstSite(swords, i + 1)
    ELSE IF lower(At(swords, i).text) \notin config.name_prefixes
    THEN PrefixStopAtFirstSite(swords, i + 1)
    ELSE PrefixSite(swords, i)

RECURSIVE PrefixLoop(_, _)
\* lines 151-171: the loop from index i on
PrefixLoop(swords, i) ==
    IF i >= Len(swords)
    THEN None
    ELSE IF i + 2 >= Len(swords)
    THEN PrefixLoop(swords, i + 1)
    ELSE IF lower(At(swords, i).text) \notin config.name_prefixes
    THEN PrefixLoop(swords, i + 1)
    ELSE IF PrefixSite(swords, i) # None
    THEN PrefixSite(swords, i)
    ELSE PrefixLoop(swords, i + 1)

detect_patient_name_using_prefix(swords) == PrefixLoop(swords, 0)

(***************************************************************************)
(* _detect_patient_name_using_keywords and its two sub-strategies          *)
(***************************************************************************)
\* line 177: the token texts handed to the sub-strategies
WordsText(swords) ==
    LET kept == SelectSeq(swords, LAMBDA w : strip(w.text, Whitespace) # <<>>)
    IN  [k \in 1..Len(kept) |-> strip(kept[k].text, {" ", ":"})]

RECURSIVE SeparateLoopFirstWins(_, _, _)
\* the scan keeping, for each kind, the first valid match instead of the last
SeparateLoopFirstWins(words, i, acc) ==
    IF i >= Len(words)
    THEN acc
    ELSE LET word_lower == rstrip(lower(At(words, i)), {":"})
         IN  IF word_lower \in config.nom_keywords /\ i + 1 < Len(words)
             THEN LET potential_family == At(words, i + 1)
                  IN  IF /\ is_valid_french_family_name(potential_family)
                         /\ acc.family_name = None
                      THEN SeparateLoopFirstWins(words, i + 1,
                               [acc EXCEPT !.family_name = potential_family,
                                           !.family_name_idx = IntValue(i + 1)])
                      ELSE SeparateLoopFirstWins(words, i + 1, acc)
             ELSE IF word_lower \in config.prenom_keywords /\ i + 1 < Len(words)
             THEN LET potential_first == At(words, i + 1)
                  IN  IF /\ is_valid_french_first_name(potential_first)
                         /\ acc.first_name = None
                      THEN SeparateLoopFirstWins(words, i + 1,
                               [acc EXCEPT !.first_name = potential_first,
                                           !.first_name_idx = IntValue(i + 1)])
                      ELSE SeparateLoopFirstWins(words, i + 1, acc)
             ELSE SeparateLoopFirstWins(words, i + 1, acc)

RECURSIVE SeparateLoop(_, _, _)
\* lines 196-209: the scan from index i on; acc holds the four accumulators
SeparateLoop(words, i, acc) ==
    IF i >= Len(words)
    THEN acc
    ELSE LET word_lower == rstrip(lower(At(words, i)), {":"})
         IN  IF word_lower \in config.nom_keywords /\ i + 1 < Len(words)
             THEN LET potential_family == At(words, i + 1)
                  IN  IF is_valid_french_family_name(potential_family)
                      THEN SeparateLoop(words, i + 1,
                               [acc EXCEPT !.family_name = potential_family,
                                           !.family_name_idx = IntValue(i + 1)])
                      ELSE SeparateLoop(words, i + 1, acc)
             ELSE IF word_lower \in config.prenom_keywords /\ i + 1 < Len(words)
             THEN LET potential_first == At(words, i + 1)
                  IN  IF is_valid_french_first_name(potential_first)
                      THEN SeparateLoop(words, i + 1,
                               [acc EXCEPT !.first_name = potential_first,
                                           !.first_name_idx = IntValue(i + 1)])
                      ELSE SeparateLoop(words, i + 1, acc)
             ELSE SeparateLoop(words, i + 1, acc)

\* lines 189-219
try_separate_keywords(words) ==
    LET acc == SeparateLoop(words, 0,
                   [first_name |-> None, family_name |-> None,
                    first_name_idx |-> None, family_name_idx |-> None])
    IN  IF /\ acc.first_name # None /\ acc.first_name # <<>>
           /\ acc.family_name # None /\ acc.family_name # <<>>
           /\ acc.first_name_idx # None
           /\ acc.family_name_idx # None
        THEN PatientName(acc.first_name_idx.value, acc.family_name_idx.value,
                         acc.first_name, acc.family_name)
        ELSE None

\* min(a, b)
min(a, b) == IF a <= b THEN a ELSE b

RECURSIVE PatientWindowInclusive(_, _, _)
\* the inner loop running one index too far: range(j, max_search + 1)
PatientWindowInclusive(words, j, max_search) ==
    IF j > max_search
    THEN None
    ELSE IF j + 1 >= Len(words)
    THEN None
    ELSE IF /\ is_valid_french_first_name(At(words, j))
            /\ is_valid_french_family_name(At(words, j + 1))
    THEN PatientName(j, j + 1, At(words, j), At(words, j + 1))
    ELSE PatientWindowInclusive(words, j + 1, max_search)

RECURSIVE PatientWindow(_, _, _)
\* lines 230-240: the inner loop, j running over range(j, max_search)
PatientWindow(words, j, max_search) ==
    IF j >= max_search
    THEN None
    ELSE IF j + 1 >= Len(words)
    THEN None
    ELSE IF /\ is_valid_french_first_name(At(words, j))
            /\ is_valid_french_family_name(At(words, j + 1))
    THEN PatientName(j, j + 1, At(words, j), At(words, j + 1))
    ELSE PatientWindow(words, j + 1, max_search)

RECURSIVE PatientLoop(_, _)
\* lines 223-242: the outer loop from index i on
PatientLoop(words, i) ==
    IF i >= Len(words)
    THEN None
    ELSE IF rstrip(lower(At(words, i)), {":"}) \notin config.patient_keywords
    THEN PatientLoop(words, i + 1)
    ELSE LET max_search == min(i + config.offset_next_line, Len(words) - 1)
             found == PatientWindow(words, i + 1, max_search)
         IN  IF found # None THEN found ELSE PatientLoop(words, i + 1)

try_patient_keyword(words) == PatientLoop(words, 0)

(***************************************************************************)
(* The scans.  A scan is one call of extract_patient_name_from_document;   *)
(* its steps are the stretches of code between two awaited calls.          *)
(***************************************************************************)
\* the callers scanning against the one NameExtractor instance
Scans == {"a", "b"}

Pending == [kind |-> "pending"]

\* the locals of a call live in the frame of that call
SharedFrame(s) == "a"

Frame(s) == s

\* `return value` of extract_patient_name_from_document
Return(s, value) ==
    /\ pc' = [pc EXCEPT ![s] = "done"]
    /\ outcome' = [outcome EXCEPT ![s] = value]
    /\ UNCHANGED <<page_idx, processed>>

\* lines 91-93 and 100-101: the page loop reaching index k
PageLoop(s, k) ==
    IF k >= Len(document.pages)
    THEN Return(s, None)
    ELSE /\ pc' = [pc EXCEPT ![s] = "page"]
         /\ page_idx' = [page_idx EXCEPT ![Frame(s)] = k]
         /\ processed' = [processed EXCEPT ![s] = Append(@, k)]
         /\ UNCHANGED outcome

\* the page loop returning whatever the page scan gave, found or not
PageReturnsAlways(s, r) ==
    /\ page_results' = [page_results EXCEPT ![s] = Append(@, r)]
    /\ Return(s, r)

\* lines 93-98: the page scan returned r to the page loop
PageReturns(s, r) ==
    /\ page_results' = [page_results EXCEPT ![s] = Append(@, r)]
    /\ IF r # None
       THEN Return(s, r)
       ELSE PageLoop(s, page_idx[Frame(s)] + 1)

\* an exception of the page scan swallowed by the page loop
PageRaisesSwallowed(s, e) == PageReturns(s, None)

\* lines 103-107 and 144-145: an exception that is no KeyError leaves both
\* functions unchanged
PageRaises(s, e) ==
    /\ Return(s, e)
    /\ UNCHANGED page_results

\* a strategy of the page scan returned or raised r, which is not None
StrategyEnds(s, r) ==
    IF r = ValueError THEN PageRaises(s, r) ELSE PageReturns(s, r)

\* `"pages" not in document`
PagesAbsent(doc) == "pages" \notin DOMAIN doc

\* a page without words taken as one without tokens
WordsAbsentOrEmpty(page) ==
    IF "words" \in DOMAIN page THEN page.words = <<>> ELSE TRUE

\* `"words" not in page`
WordsAbsent(page) == "words" \notin DOMAIN page

\* lines 126-132: the locals sorted_words_by_y and sorted_words
ReadingOrder(words, by_y) ==
    IF config.sort_document
    THEN LET y == sorted(words, "y_min")
         IN  [sorted_words_by_y |-> y, sorted_words |-> sorted(y, "x_min")]
    ELSE [sorted_words_by_y |-> by_y, sorted_words |-> words]

\* lines 85-93: the call, up to the first page scan
ExtractStart(s) ==
    /\ pc[s] = "start"
    /\ IF PagesAbsent(document)
       THEN Return(s, InvalidDocumentFormat)
       ELSE PageLoop(s, 0)
    /\ UNCHANGED <<config, document, sorted_words_by_y, sorted_words, words_text,
                   page_results, args, built>>

\* lines 118-134: detect_patient_name_from_page up to the prefix strategy
DetectPage(s) ==
    /\ pc[s] = "page"
    /\ LET page == At(document.pages, page_idx[Frame(s)])
       IN  IF WordsAbsent(page)
           THEN /\ PageRaises(s, InvalidDocumentFormat)
                /\ UNCHANGED <<sorted_words_by_y, sorted_words>>
           ELSE IF page.words = <<>>
           THEN /\ PageReturns(s, None)
                /\ UNCHANGED <<sorted_words_by_y, sorted_words>>
           ELSE LET o == ReadingOrder(page.words, sorted_words_by_y[Frame(s)])
                IN  /\ sorted_words_by_y' =
                           [sorted_words_by_y EXCEPT ![Frame(s)] = o.sorted_words_by_y]
                    /\ sorted_words' = [sorted_words EXCEPT ![Frame(s)] = o.sorted_words]
                    /\ pc' = [pc EXCEPT ![s] = "prefix"]
                    /\ UNCHANGED <<page_idx, processed, outcome, page_results>>
    /\ UNCHANGED <<config, document, words_text, args, built>>

\* lines 134-138: the prefix strategy and what the page scan does with its result
Prefix(s) ==
    /\ pc[s] = "prefix"
    /\ LET detected_name == detect_patient_name_using_prefix(sorted_words[Frame(s)])
       IN  IF detected_name # None
           THEN StrategyEnds(s, detected_name)
           ELSE /\ pc' = [pc EXCEPT ![s] = "keywords"]
                /\ UNCHANGED <<page_idx, processed, outcome, page_results>>
    /\ UNCHANGED <<config, document, sorted_words_by_y, sorted_words, words_text,
                   args, built>>

\* lines 177-179: _detect_patient_name_using_keywords up to the first sub-strategy
Keywords(s) ==
    /\ pc[s] = "keywords"
    /\ words_text' = [words_text EXCEPT ![Frame(s)] = WordsText(sorted_words[Frame(s)])]
    /\ pc' = [pc EXCEPT ![s] = "separate"]
    /\ UNCHANGED <<config, document, page_idx, processed, sorted_words_by_y,
                   sorted_words, page_results, outcome, args, built>>

\* the keyword strategy trying the patient label before the separate keywords
TrySeparateAfterPatient(s) ==
    /\ pc[s] = "separate"
    /\ LET first == try_patient_keyword(words_text[Frame(s)])
           result == IF first # None
                     THEN first
                     ELSE try_separate_keywords(words_text[Frame(s)])
       IN  IF result # None
           THEN StrategyEnds(s, result)
           ELSE /\ pc' = [pc EXCEPT ![s] = "patient"]
                /\ UNCHANGED <<page_idx, processed, outcome, page_results>>
    /\ UNCHANGED <<config, document, sorted_words_by_y, sorted_words, words_text,
                   args, built>>

\* lines 179-183: separate-keyword matching and what becomes of its result
TrySeparate(s) ==
    /\ pc[s] = "separate"
    /\ LET result == try_separate_keywords(words_text[Frame(s)])
       IN  IF result # None
           THEN StrategyEnds(s, result)
           ELSE /\ pc' = [pc EXCEPT ![s] = "patient"]
                /\ UNCHANGED <<page_idx, processed, outcome, page_results>>
    /\ UNCHANGED <<config, document, sorted_words_by_y, sorted_words, words_text,
                   args, built>>

\* lines 183-187, 138-142 and 93-101: patient-label matching, the end of the
\* page scan and the page loop going on
TryPatient(s) ==
    /\ pc[s] = "patient"
    /\ LET result == try_patient_keyword(words_text[Frame(s)])
       IN  IF result = ValueError
           THEN PageRaises(s, result)
           ELSE PageReturns(s, result)
    /\ UNCHANGED <<config, document, sorted_words_by_y, sorted_words, words_text,
                   args, built>>

\* one step of the scan s
Step(s) ==
    \/ ExtractStart(s)
    \/ DetectPage(s)
    \/ Prefix(s)
    \/ Keywords(s)
    \/ TrySeparate(s)
    \/ TryPatient(s)

\* a direct construction PatientName(...), as the tests make it
Construct ==
    /\ built = Pending
    /\ built' = PatientName(args.first_name_index, args.family_name_index,
                            args.first_name, args.family_name)
    /\ UNCHANGED <<config, document, args>>
    /\ UNCHANGED scanVars

(***************************************************************************)
(* Inputs.                                                                 *)
(***************************************************************************)
\* token texts: "Mr", "Jo", "DU", "nom", "Nom", "NOM", "prenom", "Patient",
\* "patient", ":" and " "
Mr == <<"M","r">>
Jo == <<"J","o">>
Al == <<"A","l">>
DU == <<"D","U">>
nom == <<"n","o","m">>
Nom == <<"N","o","m">>
NOM == <<"N","O","M">>
prenom == <<"p","r","e","n","o","m">>
Patient == <<"P","a","t","i","e","n","t">>
patient == <<"p","a","t","i","e","n","t">>
Colon == <<":">>
Blank == <<" ">>

\* the most tokens on a page of SpecPage
MaxWords == 4
\* the most pages in a document of Spec
MaxPages == 2
\* the most tokens on a page of SpecSort, and the largest coordinate
MaxSortWords == 3
MaxCoord == 1
\* the largest token index handed to a direct construction
MaxIndex == 1

\* the texts the pages of SpecPage are made of
PageTexts == {Mr, Jo, DU, Nom, NOM, prenom, Patient, Colon}

\* the strings handed to a direct construction: "", "J", "Jo", "jo", "JO",
\* "DU", "Du", "D", "J:", "Jo" + aleph, "DU" + aleph, aleph + aleph
NameTexts == {<<>>, <<"J">>, Jo, <<"j","o">>, <<"J","O">>, DU, <<"D","u">>,
              <<"D">>, <<"J",":">>, <<"J","o","aleph">>, <<"D","U","aleph">>,
              <<"aleph","aleph">>}

\* tokens laid out on one line, left to right in the given order
Row(texts) ==
    [k \in 1..Len(texts) |->
        [text |-> texts[k], bbox |-> [x_min |-> k, y_min |-> 0]]]

\* tokens of one line given right to left
Reversed(texts) ==
    [k \in 1..Len(texts) |->
        [text |-> texts[k], bbox |-> [x_min |-> Len(texts) - k, y_min |-> 0]]]

\* the pages the documents of Spec are made of
SamplePages ==
    {[words |-> Row(<<Mr, Jo, DU>>)],
     [words |-> Reversed(<<DU, Al, Mr>>)],
     [words |-> Row(<<nom, DU, prenom, Al>>)],
     [words |-> Row(<<patient, Jo, NOM>>)],
     [words |-> Row(<<Jo, DU>>)],
     [words |-> <<>>],
     [lines |-> <<>>]}

Documents ==
    {[document_id |-> "d"]}
        \cup UNION {{[pages |-> ps] : ps \in [1..n -> SamplePages]} : n \in 0..MaxPages}

\* the state of the scans before any call
ScansInit ==
    /\ pc = [s \in Scans |-> "start"]
    /\ page_idx = [s \in Scans |-> 0]
    /\ processed = [s \in Scans |-> <<>>]
    /\ sorted_words_by_y = [s \in Scans |-> <<>>]
    /\ sorted_words = [s \in Scans |-> <<>>]
    /\ words_text = [s \in Scans |-> <<>>]
    /\ page_results = [s \in Scans |-> <<>>]
    /\ outcome = [s \in Scans |-> Pending]

NoArgs ==
    [first_name_index |-> 0, family_name_index |-> 0,
     first_name |-> <<>>, family_name |-> <<>>]

(***************************************************************************)
(* Spec: the callers of Scans scan one document against one engine.        *)
(***************************************************************************)
Init ==
    /\ \E sort \in BOOLEAN : config = [NameExtractorConfig EXCEPT !.sort_document = sort]
    /\ document \in Documents
    /\ ScansInit
    /\ args = NoArgs
    /\ built = Pending

Next == \E s \in Scans : Step(s)

Spec == Init /\ [][Next]_vars

(***************************************************************************)
(* SpecPage: one caller scans a document of one page, with the default     *)
(* configuration.                                                          *)
(***************************************************************************)
InitPage ==
    /\ config = NameExtractorConfig
    /\ \E n \in 0..MaxWords : \E texts \in [1..n -> PageTexts] :
          \E words \in {Row(texts), Reversed(texts)} :
              document = [pages |-> <<[words |-> words]>>]
    /\ ScansInit
    /\ args = NoArgs
    /\ built = Pending

NextOne == Step("a")

SpecPage == InitPage /\ [][NextOne]_vars

(***************************************************************************)
(* SpecSort: one caller scans one page whose tokens lie anywhere.          *)
(***************************************************************************)
\* the text of the k-th token: "A" followed by k letters "a"
TokenText(k) == [j \in 1..(k + 1) |-> IF j = 1 THEN "A" ELSE "a"]

InitSort ==
    /\ \E sort \in BOOLEAN : config = [NameExtractorConfig EXCEPT !.sort_document = sort]
    /\ \E n \in 0..MaxSortWords :
          \E xs \in [1..n -> 0..MaxCoord], ys \in [1..n -> 0..MaxCoord] :
              document =
                  [pages |->
                      <<[words |->
                          [k \in 1..n |->
                              [text |-> TokenText(k),
                               bbox |-> [x_min |-> xs[k], y_min |-> ys[k]]]]]>>]
    /\ ScansInit
    /\ args = NoArgs
    /\ built = Pending

SpecSort == InitSort /\ [][NextOne]_vars

(***************************************************************************)
(* SpecName: PatientName(...) constructed directly.                        *)
(***************************************************************************)
InitName ==
    /\ config = NameExtractorConfig
    /\ document = [pages |-> <<>>]
    /\ ScansInit
    /\ args \in [first_name_index : 0..MaxIndex, family_name_index : 0..MaxIndex,
                 first_name : NameTexts, family_name : NameTexts]
    /\ built = Pending

SpecName == InitName /\ [][Construct]_vars

(***************************************************************************)
(* What a scan run alone, start to end, gives.                             *)
(***************************************************************************)
\* the reading-order tokens of a page that has tokens
OrderOf(page) == ReadingOrder(page.words, <<>>).sorted_words

\* the three strategies on the reading-order tokens of a page
PrefixOf(page) == detect_patient_name_using_prefix(OrderOf(page))
SeparateOf(page) == try_separate_keywords(WordsText(OrderOf(page)))
PatientOf(page) == try_patient_keyword(WordsText(OrderOf(page)))

\* the first, in the order prefix, separate keywords, patient label, to yield
FirstToYield(page) ==
    IF PrefixOf(page) # None THEN PrefixOf(page)
    ELSE IF SeparateOf(page) # None THEN SeparateOf(page)
    ELSE PatientOf(page)

\* a page with its tokens yields a candidate
Yields(page) == page.words # <<>> /\ FirstToYield(page) # None

WellFormed(doc) ==
    /\ ~PagesAbsent(doc)
    /\ \A k \in 1..Len(doc.pages) : ~WordsAbsent(doc.pages[k])

\* 0, 1, ..., n - 1
Indices(n) == [k \in 1..n |-> k - 1]

RECURSIVE AloneFrom(_, _)
AloneFrom(pages, k) ==
    IF k > Len(pages) THEN None
    ELSE IF WordsAbsent(pages[k]) THEN InvalidDocumentFormat
    ELSE IF Yields(pages[k]) THEN FirstToYield(pages[k])
    ELSE AloneFrom(pages, k + 1)

\* the outcome of a scan of doc that nothing interleaves with
Alone(doc) ==
    IF PagesAbsent(doc) THEN InvalidDocumentFormat ELSE AloneFrom(doc.pages, 1)

(***************************************************************************)
(* C1 -- strategy priority on a page.                                      *)
(***************************************************************************)
\* C1: whatever a page scan returned is the candidate of the first strategy,
\* in the order prefix, separate keywords, patient label, that yields one on
\* the page's reading-order tokens (and None when none of them yields).
C1_PriorityOrder ==
    \A s \in Scans : \A k \in 1..Len(page_results[s]) :
        LET page == At(document.pages, processed[s][k])
        IN  page_results[s][k] =
                IF page.words = <<>> THEN None ELSE FirstToYield(page)

\* a page scan has returned the prefix candidate on a page where the separate
\* keywords yield another candidate
C1_Witness ==
    /\ Len(page_results["a"]) = 1
    /\ LET page == At(document.pages, 0)
       IN  /\ PrefixOf(page) # None
           /\ SeparateOf(page) # None
           /\ SeparateOf(page) # PrefixOf(page)
           /\ page_results["a"][1] = PrefixOf(page)

(***************************************************************************)
(* C2 -- pages in order, first yielding page wins.                         *)
(***************************************************************************)
\* C2: on a well-formed document the pages handed to the page scan are
\* 0, 1, 2, ... in that order; a scan that has ended returned the candidate of
\* the lowest-indexed yielding page and handed no later page to the page scan,
\* and it returned None exactly when every page was handed over and none yields.
C2_FirstYieldingPage ==
    \A s \in Scans :
        WellFormed(document) =>
            LET pages == document.pages
                yielding == {k \in 1..Len(pages) : Yields(pages[k])}
            IN  /\ processed[s] = Indices(Len(processed[s]))
                /\ Len(processed[s]) <= Len(pages)
                /\ pc[s] = "done" =>
                      IF yielding = {}
                      THEN /\ outcome[s] = None
                           /\ Len(processed[s]) = Len(pages)
                      ELSE LET m == CHOOSE k \in yielding : \A j \in yielding : k <= j
                           IN  /\ outcome[s] = FirstToYield(pages[m])
                               /\ Len(processed[s]) = m

\* a scan ended on the first page's candidate, the second page, which yields
\* another candidate, never handed to the page scan
C2_Witness ==
    /\ WellFormed(document)
    /\ Len(document.pages) = 2
    /\ pc["a"] = "done"
    /\ processed["a"] = <<0>>
    /\ Yields(document.pages[2])
    /\ FirstToYield(document.pages[2]) # outcome["a"]
    /\ outcome["a"].kind = "PatientName"

(***************************************************************************)
(* C3 -- missing structural fields.                                        *)
(***************************************************************************)
\* a page without `words` before which every page has its words and yields
\* nothing
ReachedWithoutWords(doc) ==
    \E k \in 1..Len(doc.pages) :
        /\ WordsAbsent(doc.pages[k])
        /\ \A j \in 1..(k - 1) :
              ~WordsAbsent(doc.pages[j]) /\ ~Yields(doc.pages[j])

\* C3 as stated: a scan of a document without `pages`, or with any page without
\* `words`, ends with InvalidDocumentFormat.
C3_AnyPageWithoutWords ==
    \A s \in Scans :
        /\ pc[s] = "done"
        /\ \/ PagesAbsent(document)
           \/ \E k \in 1..Len(document.pages) : WordsAbsent(document.pages[k])
        => outcome[s] = InvalidDocumentFormat

\* C3: a scan of a document without `pages`, or with a page without `words`
\* that no yielding page precedes, ends with InvalidDocumentFormat, never with a
\* candidate or None.
C3_ReachedPageWithoutWords ==
    \A s \in Scans :
        /\ pc[s] = "done"
        /\ \/ PagesAbsent(document)
           \/ ReachedWithoutWords(document)
        => outcome[s] = InvalidDocumentFormat

\* a scan ended with InvalidDocumentFormat on the second page, the first one
\* having tokens
C3_Witness ==
    /\ pc["a"] = "done"
    /\ outcome["a"] = InvalidDocumentFormat
    /\ ~PagesAbsent(document)
    /\ Len(document.pages) = 2
    /\ ~WordsAbsent(document.pages[1])
    /\ document.pages[1].words # <<>>
    /\ WordsAbsent(document.pages[2])
    /\ processed["a"] = <<0, 1>>

(***************************************************************************)
(* C4 -- a page with no tokens.                                            *)
(***************************************************************************)
\* a page whose `words` is present and empty
EmptyPage(page) == "words" \in DOMAIN page /\ page.words = <<>>

\* C4: a page whose `words` is present and empty gives the page loop None and
\* no error: once its page scan is over the loop has gone on to the next page
\* or, after the last page, has returned; and a scan of a document all of
\* whose pages are empty ends with None.
C4_EmptyPage ==
    \A s \in Scans :
        /\ \A k \in 1..Len(processed[s]) :
              LET i == processed[s][k]
                  page == At(document.pages, i)
              IN  /\ EmptyPage(page)
                  /\ ~(k = Len(processed[s]) /\ pc[s] = "page")
                  => /\ Len(page_results[s]) >= k
                     /\ page_results[s][k] = None
                     /\ IF i + 1 < Len(document.pages)
                        THEN Len(processed[s]) > k /\ processed[s][k + 1] = i + 1
                        ELSE pc[s] = "done" /\ outcome[s] = None
        /\ /\ pc[s] = "done"
           /\ ~PagesAbsent(document)
           /\ \A k \in 1..Len(document.pages) : EmptyPage(document.pages[k])
           => outcome[s] = None

\* a scan went past an empty first page and ended on the second page's candidate
C4_Witness ==
    /\ pc["a"] = "done"
    /\ ~PagesAbsent(document)
    /\ Len(document.pages) = 2
    /\ EmptyPage(document.pages[1])
    /\ processed["a"] = <<0, 1>>
    /\ outcome["a"].kind = "PatientName"

(***************************************************************************)
(* C5 -- no ValueError out of a scan.                                      *)
(***************************************************************************)
\* C5: no scan ends with the ValueError of PatientName._validate, and every
\* candidate a scan returns has a first name passing
\* _is_valid_french_first_name and a family name passing
\* _is_valid_french_family_name.
C5_NoInvalidCandidate ==
    \A s \in Scans :
        /\ outcome[s] # ValueError
        /\ outcome[s].kind = "PatientName" =>
              /\ is_valid_french_first_name(outcome[s].first_name)
              /\ is_valid_french_family_name(outcome[s].family_name)

\* a scan returned a candidate built by the second assignment of a prefix
\* site: the family name stands before the first name
C5_Witness ==
    /\ pc["a"] = "done"
    /\ outcome["a"].kind = "PatientName"
    /\ outcome["a"] = PrefixOf(At(document.pages, 0))
    /\ outcome["a"].family_name_index < outcome["a"].first_name_index

(***************************************************************************)
(* C6 -- interleaved scans.                                                *)
(***************************************************************************)
\* C6: every scan that has ended, whatever the other scan did between its
\* steps, ended with the outcome a scan of the same document run alone has; so
\* two scans of the document end alike.
C6_InterleavingFree ==
    \A s \in Scans : pc[s] = "done" => outcome[s] = Alone(document)

\* scan a ended on the second page's candidate while scan b was inside the
\* first page
C6_Witness ==
    /\ pc["a"] = "done"
    /\ outcome["a"].kind = "PatientName"
    /\ processed["a"] = <<0, 1>>
    /\ pc["b"] \in {"prefix", "keywords", "separate", "patient"}
    /\ processed["b"] = <<0>>

(***************************************************************************)
(* C7 -- construction of a PatientName.                                    *)
(***************************************************************************)
\* C7: PatientName(i, j, first, family) gives an object, holding the four
\* arguments, exactly when first passes _is_valid_french_first_name and family
\* passes _is_valid_french_family_name, whatever i and j are; otherwise it
\* raises ValueError and gives no object.
C7_ConstructionIffValid ==
    built # Pending =>
        IF /\ is_valid_french_first_name(args.first_name)
           /\ is_valid_french_family_name(args.family_name)
        THEN built = [kind |-> "PatientName",
                      first_name_index |-> args.first_name_index,
                      family_name_index |-> args.family_name_index,
                      first_name |-> args.first_name,
                      family_name |-> args.family_name]
        ELSE built = ValueError

\* a construction with a valid first name and an invalid family name raised
C7_Witness ==
    /\ built = ValueError
    /\ is_valid_french_first_name(args.first_name)
    /\ ~is_valid_french_family_name(args.family_name)

(***************************************************************************)
(* C8, C9 -- the reading order.                                            *)
(***************************************************************************)
\* the tokens of the one page of SpecSort, as given
GivenWords == At(document.pages, 0).words

\* scan a has sorted the tokens of the page
Ordered == pc["a"] \notin {"start", "page"} /\ GivenWords # <<>>

\* u is not after w in the order of the composite key (y_min, x_min)
LexLeq(u, w) ==
    \/ u.bbox.y_min < w.bbox.y_min
    \/ u.bbox.y_min = w.bbox.y_min /\ u.bbox.x_min <= w.bbox.x_min

RECURSIVE LexSorted(_)
\* the stable sort on the composite key (y_min, x_min), by insertion
LexSorted(words) ==
    IF words = <<>>
    THEN <<>>
    ELSE LET front == LexSorted(SubSeq(words, 1, Len(words) - 1))
             w == words[Len(words)]
             n == Cardinality({i \in 1..Len(front) : LexLeq(front[i], w)})
         IN  SubSeq(front, 1, n) \o <<w>> \o SubSeq(front, n + 1, Len(front))

\* C8: with sort_document set, the tokens handed to the strategies are the
\* page's tokens in the order of a stable sort on the composite key
\* (y_min, x_min).
C8_TwoPassIsLexicographic ==
    Ordered /\ config.sort_document => sorted_words["a"] = LexSorted(GivenWords)

\* how often w occurs in seq
Count(seq, w) == Cardinality({i \in 1..Len(seq) : seq[i] = w})

\* b holds the elements of a, each as often as a does
IsPermutation(a, b) ==
    /\ Len(a) = Len(b)
    /\ \A i \in 1..Len(a) : Count(a, a[i]) = Count(b, a[i])

\* where w stands in a (the tokens of SpecSort differ from one another)
Position(a, w) == CHOOSE i \in 1..Len(a) : a[i] = w

\* b is in ascending order of key k, and its tokens of equal key stand in the
\* order they have in a
StablySorted(a, b, k) ==
    \A i, j \in 1..Len(b) :
        i < j =>
            /\ b[i].bbox[k] <= b[j].bbox[k]
            /\ b[i].bbox[k] = b[j].bbox[k] => Position(a, b[i]) < Position(a, b[j])

\* C9: with sort_document set, sorted_words_by_y is a permutation of the
\* page's tokens in ascending y_min whose tokens of equal y_min keep their
\* given order, and sorted_words is a permutation of sorted_words_by_y in
\* ascending x_min whose tokens of equal x_min keep the order of
\* sorted_words_by_y; without sort_document, sorted_words is the given sequence.
C9_StablePermutation ==
    Ordered =>
        IF config.sort_document
        THEN /\ IsPermutation(GivenWords, sorted_words_by_y["a"])
             /\ StablySorted(GivenWords, sorted_words_by_y["a"], "y_min")
             /\ IsPermutation(sorted_words_by_y["a"], sorted_words["a"])
             /\ StablySorted(sorted_words_by_y["a"], sorted_words["a"], "x_min")
        ELSE sorted_words["a"] = GivenWords

\* three tokens were sorted into another order, the y-sort moving tokens past
\* each other and the x-sort leaving two tokens of equal x_min, of different
\* y_min, in the order the y-sort gave them
C9_Witness ==
    /\ Ordered
    /\ config.sort_document
    /\ Len(GivenWords) = 3
    /\ sorted_words_by_y["a"] # GivenWords
    /\ sorted_words["a"] # sorted_words_by_y["a"]
    /\ \E i \in 1..2 :
          /\ sorted_words["a"][i].bbox.x_min = sorted_words["a"][i + 1].bbox.x_min
          /\ sorted_words["a"][i].bbox.y_min < sorted_words["a"][i + 1].bbox.y_min
    /\ \E i \in 1..2 :
          sorted_words_by_y["a"][i].bbox.y_min = sorted_words_by_y["a"][i + 1].bbox.y_min

(***************************************************************************)
(* C10 -- the prefix strategy is first-fit.                                *)
(***************************************************************************)
\* assignment A at site i: token i+1 a first name, token i+2 a family name
AssignmentA(swords, i) ==
    /\ is_valid_french_first_name(At(swords, i + 1).text)
    /\ is_valid_french_family_name(At(swords, i + 2).text)

\* assignment B at site i: token i+2 a first name, token i+1 a family name
AssignmentB(swords, i) ==
    /\ is_valid_french_first_name(At(swords, i + 2).text)
    /\ is_valid_french_family_name(At(swords, i + 1).text)

\* the indices i with two tokens after them whose token is a name prefix
PrefixTokens(swords) ==
    {i \in 0..(Len(swords) - 3) : lower(At(swords, i).text) \in config.name_prefixes}

\* the prefix tokens followed by a first name and a family name, in either order
FittingSites(swords) ==
    {i \in PrefixTokens(swords) : AssignmentA(swords, i) \/ AssignmentB(swords, i)}

\* the candidate of the site i
CandidateAt(swords, i) ==
    IF AssignmentA(swords, i)
    THEN [kind |-> "PatientName",
          first_name_index |-> i + 1, family_name_index |-> i + 2,
          first_name |-> At(swords, i + 1).text,
          family_name |-> At(swords, i + 2).text]
    ELSE [kind |-> "PatientName",
          first_name_index |-> i + 2, family_name_index |-> i + 1,
          first_name |-> At(swords, i + 2).text,
          family_name |-> At(swords, i + 1).text]

\* C10: once the prefix strategy has run on the reading-order tokens, the page
\* scan has gone on to the keyword strategy (and ends with what that strategy
\* gives) exactly when no prefix token with two tokens after it is followed by
\* a valid pair, and has otherwise returned the candidate of the smallest such
\* index: assignment A if it validates there, else assignment B.
C10_PrefixFirstFit ==
    LET swords == sorted_words["a"]
        sites == FittingSites(swords)
    IN  pc["a"] \notin {"start", "page", "prefix"} /\ swords # <<>> =>
            IF sites = {}
            THEN pc["a"] = "done" =>
                     LET page == At(document.pages, 0)
                     IN  page_results["a"] =
                             <<IF SeparateOf(page) # None
                               THEN SeparateOf(page)
                               ELSE PatientOf(page)>>
            ELSE /\ pc["a"] = "done"
                 /\ page_results["a"] =
                        <<CandidateAt(swords,
                              CHOOSE i \in sites : \A j \in sites : i <= j)>>
                 /\ outcome["a"] = page_results["a"][1]

\* the prefix strategy returned the candidate of a site that stands after a
\* prefix token where neither assignment validates
C10_Witness ==
    LET swords == sorted_words["a"]
    IN  /\ pc["a"] = "done"
        /\ FittingSites(swords) # {}
        /\ outcome["a"].kind = "PatientName"
        /\ \E i \in PrefixTokens(swords) : \A j \in FittingSites(swords) : i < j

(***************************************************************************)
(* SpecKeywords: one caller scans a document of one page, a short one made *)
(* of label keywords, names, a colon and a blank or a long one made of a   *)
(* patient label and names, the lookahead window being 2 or the default.   *)
(***************************************************************************)
\* the most tokens on a page of SpecKeywords
MaxKeywordWords == 4

\* the most tokens on a page long enough for the default window to end
\* before the page does
MaxWindowWords == 7

\* the texts the pages of SpecKeywords are made of
KeywordTexts == {prenom, Nom, NOM, DU, Patient, Colon, Blank}

\* the texts its long pages are made of
WindowTexts == {Patient, Nom, DU}

InitKeywords ==
    /\ \E offset \in {2, NameExtractorConfig.offset_next_line} :
          config = [NameExtractorConfig EXCEPT !.offset_next_line = offset]
    /\ \/ \E n \in 0..MaxKeywordWords : \E texts \in [1..n -> KeywordTexts] :
             document = [pages |-> <<[words |-> Row(texts)]>>]
       \/ \E n \in 0..MaxWindowWords : \E texts \in [1..n -> WindowTexts] :
             document = [pages |-> <<[words |-> Row(texts)]>>]
    /\ ScansInit
    /\ args = NoArgs
    /\ built = Pending

SpecKeywords == InitKeywords /\ [][NextOne]_vars

\* the one page of SpecKeywords
KeywordPage == At(document.pages, 0)

\* scan a has run separate-keyword matching on words_text
SeparateRan ==
    /\ pc["a"] \in {"patient", "done"}
    /\ KeywordPage.words # <<>>
    /\ PrefixOf(KeywordPage) = None

(***************************************************************************)
(* C11 -- separate-keyword matching: last valid match of each kind.        *)
(***************************************************************************)
\* token i of words as the sub-strategies compare it: lowercased, trailing
\* colons removed
Label(words, i) == rstrip(lower(At(words, i)), {":"})

\* the indices of the tokens that follow a family-name label and are valid
\* family names
FamilyMatches(words) ==
    {i + 1 : i \in {i \in 0..(Len(words) - 2) :
                       /\ Label(words, i) \in config.nom_keywords
                       /\ is_valid_french_family_name(At(words, i + 1))}}

\* the indices of the tokens that follow a first-name label and are valid
\* first names
FirstMatches(words) ==
    {i + 1 : i \in {i \in 0..(Len(words) - 2) :
                       /\ Label(words, i) \in config.prenom_keywords
                       /\ is_valid_french_first_name(At(words, i + 1))}}

\* the largest element of a non-empty set of indices
Last(S) == CHOOSE i \in S : \A j \in S : j <= i

PatientRan ==
    /\ SeparateRan
    /\ pc["a"] = "done"
    /\ FirstMatches(words_text["a"]) = {} \/ FamilyMatches(words_text["a"]) = {}

\* the indices of the patient labels
PatientLabels(words) ==
    {i \in 0..(Len(words) - 1) : Label(words, i) \in config.patient_keywords}

\* the indices j of the window of the label at i where a valid first name is
\* followed by a valid family name
WindowPairs(words, i) ==
    {j \in (i + 1)..(min(i + config.offset_next_line, Len(words) - 1) - 1) :
        /\ is_valid_french_first_name(At(words, j))
        /\ is_valid_french_family_name(At(words, j + 1))}

\* the smallest element of a non-empty set of indices
First(S) == CHOOSE i \in S : \A j \in S : i <= j

\* C12: once patient-label matching has run on words_text, the page scan has
\* returned None when no patient label has a valid adjacent pair (first name
\* at j, family name at j + 1) with i + 1 <= j < min(i + offset_next_line,
\* length - 1), i the index of the label; otherwise it has returned the pair,
\* with the indices (j, j + 1), of the smallest such j of the smallest such i,
\* labels with no pair in their window being passed over.
C12_BoundedWindow ==
    PatientRan =>
        LET words == words_text["a"]
            labels == {i \in PatientLabels(words) : WindowPairs(words, i) # {}}
        IN  IF labels = {}
            THEN page_results["a"] = <<None>> /\ outcome["a"] = None
            ELSE LET j == First(WindowPairs(words, First(labels)))
                 IN  /\ page_results["a"] =
                            <<[kind |-> "PatientName",
                               first_name_index |-> j,
                               family_name_index |-> j + 1,
                               first_name |-> At(words, j),
                               family_name |-> At(words, j + 1)]>>
                     /\ outcome["a"] = page_results["a"][1]

\* patient-label matching returned the pair of a second patient label, the
\* window of the first label holding no pair
C12_Witness ==
    /\ PatientRan
    /\ outcome["a"].kind = "PatientName"
    /\ \E i \in PatientLabels(words_text["a"]) :
          /\ WindowPairs(words_text["a"], i) = {}
          /\ i + 1 < outcome["a"].first_name_index
          /\ \E k \in PatientLabels(words_text["a"]) :
                i < k /\ outcome["a"].first_name_index \in WindowPairs(words_text["a"], k)

\* under the default window a valid pair stands after a patient label, outside
\* its window, and patient-label matching returned None
C12_DefaultWindowReached ==
    /\ PatientRan
    /\ config.offset_next_line = NameExtractorConfig.offset_next_line
    /\ outcome["a"] = None
    /\ \E i \in PatientLabels(words_text["a"]) :
          \E j \in (i + 1)..(Len(words_text["a"]) - 2) :
              /\ is_valid_french_first_name(At(words_text["a"], j))
              /\ is_valid_french_family_name(At(words_text["a"], j + 1))

(***************************************************************************)
(* C13 -- the token texts handed to the keyword sub-strategies.            *)
(***************************************************************************)
\* scan a has built words_text from the reading-order tokens
KeywordsRan ==
    /\ pc["a"] \in {"separate", "patient", "done"}
    /\ KeywordPage.words # <<>>
    /\ PrefixOf(KeywordPage) = None

\* C13: words_text holds no empty string: it is the texts of the
\* reading-order tokens, spaces and colons stripped from both ends, those
\* that are empty once stripped left out.
C13_NoEmptyText ==
    KeywordsRan =>
        LET stripped == [k \in 1..Len(sorted_words["a"]) |->
                            strip(sorted_words["a"][k].text, {" ", ":"})]
        IN  /\ \A k \in 1..Len(words_text["a"]) : words_text["a"][k] # <<>>
            /\ words_text["a"] = SelectSeq(stripped, LAMBDA t : t # <<>>)

(***************************************************************************)
(* C14 -- the token indices of a candidate.                                *)
(***************************************************************************)
\* C14: a candidate returned by the page scan holds two different indices of
\* sorted_words, first_name being the text, spaces and colons stripped, of the
\* token at first_name_index and family_name that of the token at
\* family_name_index.
C14_IndicesOfReadingOrder ==
    \A k \in 1..Len(page_results["a"]) :
        LET r == page_results["a"][k]
            swords == sorted_words["a"]
        IN  r # None =>
                /\ r.first_name_index \in 0..(Len(swords) - 1)
                /\ r.family_name_index \in 0..(Len(swords) - 1)
                /\ r.first_name_index # r.family_name_index
                /\ strip(At(swords, r.first_name_index).text, {" ", ":"}) = r.first_name
                /\ strip(At(swords, r.family_name_index).text, {" ", ":"}) = r.family_name

====
